---- MODULE Spec2Model ----
(***************************************************************************)
(* Per-geography time-series pipeline of scripts/utils_series.py,          *)
(* scripts/make_forecasts.py and scripts/volatility_index.py.              *)
(*                                                                         *)
(* Representation.                                                        *)
(*   - A calendar date is a record [m, d]: m is the month ordinal and d    *)
(*     the day of the month.  Timestamps are at midnight.                  *)
(*   - A float is a record [k, n, d]: k = "num" is the rational n/d in     *)
(*     lowest terms with d > 0, k = "nan" is NaN, k = "inf" is +infinity.  *)
(*     Arithmetic is exact; IEEE rounding is not modelled.                 *)
(*   - A pandas Series is a sequence of entries [date, v], in index order. *)
(*   - A table (DataFrame / parquet dataset) is a sequence of rows, each a *)
(*     record keyed by column name.                                        *)
(*   - None (a null identifier) is the reserved string NoneId.             *)
(***************************************************************************)
EXTENDS Integers, Sequences, FiniteSets, TLC

VARIABLES
    pc,         \* position of the running program / function under check
    df,         \* the dataset: a sequence of rows
    geo,        \* the region value asked of monthly_series_for_geo
    ret,        \* what the function under check returned or raised
    perm,       \* the row order polars' unique() happened to produce
    fc,         \* the rows of a forecast.csv artifact
    y,          \* the series handed to residual_volatility
    window,     \* --window
    script,     \* the batch script that runs: make_forecasts or volatility_index
    mode,       \* --mode of volatility_index
    args_geo_type,  \* --geo-type
    readable,   \* whether the dataset at --parquet can be read
    args_geos,  \* --geos as given on the command line
    geos,       \* the region list main() iterates
    idx,        \* the position of the loop `for g in geos`
    files,      \* the artifact paths that exist
    written,    \* the writes of this run, in order: [path, by]
    fit_ok,     \* per region, whether SARIMAX(...).fit() and the forecast go through
    fitted,     \* the regions whose series was handed to sarimax_forecast
    exc         \* the exception that escaped main(), "" for none

fnVars == <<df, geo, ret, perm, fc, y, window>>
batchVars == <<script, mode, args_geo_type, readable, args_geos, geos, idx, files, written, fit_ok, fitted, exc>>
vars == <<pc, fnVars, batchVars>>

(***************************************************************************)
(* Bounds of the model.                                                    *)
(***************************************************************************)
MaxRows == 3        \* rows of a dataset
MaxMonth == 2       \* months are 0..MaxMonth
MaxPeriods == 2     \* rows of a forecast artifact
MaxGeoRows == 4     \* rows of a dataset scanned by list_geos
MaxLen == 7         \* months of a series handed to residual_volatility
MaxWindow == 8      \* --window is 0..MaxWindow
MaxGeos == 2        \* identifiers given with --geos

(***************************************************************************)
(* Constants of the program.                                               *)
(***************************************************************************)
WindowDefault == 12     \* --window default
MinPeriodsFloor == 3    \* max(3, window//2)

(***************************************************************************)
(* Floats.                                                                 *)
(***************************************************************************)
NaN == [k |-> "nan", n |-> 0, d |-> 1]
Inf == [k |-> "inf", n |-> 0, d |-> 1]
NegInf == [k |-> "-inf", n |-> 0, d |-> 1]

Abs(x) == IF x < 0 THEN -x ELSE x

RECURSIVE Gcd(_, _)
Gcd(a, b) == IF b = 0 THEN a ELSE Gcd(b, a % b)

\* the float n/d (d # 0), in lowest terms
Rat(n, d) ==
    LET g == Gcd(Abs(n), Abs(d))
        s == IF d < 0 THEN -1 ELSE 1
    IN  [k |-> "num", n |-> s * (n \div g), d |-> s * (d \div g)]

Num(i) == [k |-> "num", n |-> i, d |-> 1]

IsNaN(x) == x.k = "nan"
IsNum(x) == x.k = "num"

\* IEEE subtraction, absolute value and division on finite operands and NaN
FSub(a, b) ==
    IF IsNum(a) /\ IsNum(b)
    THEN LET g == Gcd(a.d, b.d)
         IN  Rat(a.n * (b.d \div g) - b.n * (a.d \div g), (a.d \div g) * b.d)
    ELSE NaN

\* exact sum and product of two finite floats
FAdd(a, b) == FSub(a, Rat(-b.n, b.d))
FMul(a, b) ==
    LET g1 == Gcd(Abs(a.n), b.d)
        g2 == Gcd(Abs(b.n), a.d)
    IN  Rat((a.n \div g1) * (b.n \div g2), (a.d \div g2) * (b.d \div g1))

FAbs(a) == IF IsNum(a) THEN Rat(Abs(a.n), a.d) ELSE a

FDiv(a, b) ==
    IF ~(IsNum(a) /\ IsNum(b)) THEN NaN
    ELSE IF b.n # 0 THEN Rat(a.n * b.d, a.d * b.n)
    ELSE IF a.n = 0 THEN NaN
    ELSE IF a.n > 0 THEN Inf
    ELSE NegInf

(***************************************************************************)
(* Dates.                                                                  *)
(***************************************************************************)
Days == {1, 28}
Months == 0..MaxMonth
Dates == [m : Months, d : Days]
MonthStart(m) == [m |-> m, d |-> 1]

DateLess(a, b) == a.m < b.m \/ (a.m = b.m /\ a.d < b.d)

(***************************************************************************)
(* Identifiers.  Python orders strings by code point; StrRank gives the    *)
(* position of each identifier of the model in that order.                 *)
(***************************************************************************)
NoneId == "<None>"
GeoIds == {"GA", "TX"}
StrRank(x) ==
    CASE x = "" -> 0
      [] x = "CA" -> 1
      [] x = "GA" -> 2
      [] x = "TX" -> 3
      [] OTHER -> 4
StrLess(a, b) == StrRank(a) < StrRank(b)

(***************************************************************************)
(* Sequence helpers.                                                       *)
(***************************************************************************)
RECURSIVE SelectRows(_, _, _)
\* df.loc[df[col] == val]: the rows whose column col equals val, in order
SelectRows(t, col, val) ==
    IF t = <<>> THEN <<>>
    ELSE LET rest == SelectRows(Tail(t), col, val)
         IN  IF Head(t)[col] = val THEN <<Head(t)>> \o rest ELSE rest

\* insert x into the date-sorted sequence s after every entry not later than it
RECURSIVE InsertByDate(_, _)
InsertByDate(s, x) ==
    IF s = <<>> THEN <<x>>
    ELSE IF DateLess(x.date, Head(s).date) THEN <<x>> \o s
         ELSE <<Head(s)>> \o InsertByDate(Tail(s), x)

RECURSIVE SortByDate(_)
\* sub.sort_values("date"): ascending; numpy sorts arrays this short by
\* insertion, which keeps rows of equal date in their original order
SortByDate(s) ==
    IF s = <<>> THEN <<>>
    ELSE InsertByDate(SortByDate(SubSeq(s, 1, Len(s) - 1)), s[Len(s)])

IndexDates(s) == {s[i].date : i \in 1..Len(s)}
IndexIsUnique(s) == \A i, j \in 1..Len(s) : s[i].date = s[j].date => i = j

\* a date range that leaves out its last month start
DateRangeMS_open(lo, hi) ==
    LET first == IF lo.d = 1 THEN lo.m ELSE lo.m + 1
        last == hi.m - 1
    IN  [i \in 1..(IF last >= first THEN last - first + 1 ELSE 0) |->
            MonthStart(first + i - 1)]

\* pd.date_range(lo, hi, freq="MS"): the month starts t with lo <= t <= hi
DateRangeMS(lo, hi) ==
    LET first == IF lo.d = 1 THEN lo.m ELSE lo.m + 1
        last == hi.m
    IN  [i \in 1..(IF last >= first THEN last - first + 1 ELSE 0) |->
            MonthStart(first + i - 1)]

\* s.reindex(dti) on a unique index: the value at each label of dti, NaN for
\* a label the index does not hold
Reindex(s, dti) ==
    [i \in 1..Len(dti) |->
        [date |-> dti[i],
         v |-> IF dti[i] \in IndexDates(s)
               THEN s[CHOOSE j \in 1..Len(s) : s[j].date = dti[i]].v
               ELSE NaN]]

\* pandas' Series.asfreq("MS"): kind "raise" when reindex refuses a
\* duplicated index
AsFreqMS(s) ==
    IF Len(s) = 0 THEN [kind |-> "return", exc |-> "", s |-> s]
    ELSE IF ~IndexIsUnique(s)
         THEN [kind |-> "raise", exc |-> "ValueError", s |-> <<>>]
         ELSE [kind |-> "return", exc |-> "",
               s |-> Reindex(s, DateRangeMS(s[1].date, s[Len(s)].date))]

(***************************************************************************)
(* utils_series.monthly_series_for_geo                                     *)
(***************************************************************************)
\* try: s = s.asfreq("MS") / except Exception: pass -- the series re-indexed
\* to month starts, or the series as it was when asfreq raised
reindex_monthly(s) ==
    LET r == AsFreqMS(s)
    IN  IF r.kind = "return" THEN r.s ELSE s

geo_col_map(geo_type) ==
    CASE geo_type = "state" -> "state"
      [] geo_type = "zip" -> "zip"
      [] geo_type = "metro" -> "RegionName"
      [] OTHER -> geo_type

monthly_series_for_geo(source, geo_type, g, value_col) ==
    LET geo_col == geo_col_map(geo_type)
        rows == SelectRows(source, geo_col, g)
        sub == SortByDate([i \in 1..Len(rows) |->
                              [date |-> rows[i].date, v |-> rows[i][value_col]]])
    IN  [kind |-> "return", exc |-> "", s |-> reindex_monthly(sub)]

(***************************************************************************)
(* Datasets of the model: up to MaxRows rows with columns state, date and  *)
(* the value column.  The value of row i is missing or the number i, so    *)
(* that every row's value is told apart from every other's.  The rows of   *)
(* GA take every date; a row of TX, which the selection of GA drops before *)
(* it reads the date, is dated at month 0.                                 *)
(***************************************************************************)
ValueCol == "zori_smoothed_seasonal"
MkRow(st, dt, val) == [state |-> st, date |-> dt, zori_smoothed_seasonal |-> val]

\* what a row is made from: its region, its date, whether its value is missing
RowShapes ==
    [state : {"GA"}, date : Dates, missing : BOOLEAN]
        \cup [state : {"TX"}, date : {MonthStart(0)}, missing : {FALSE}]

\* the dataset whose row i has the shape shapes[i]
TableOf(shapes) ==
    [i \in 1..Len(shapes) |->
        MkRow(shapes[i].state, shapes[i].date, IF shapes[i].missing THEN NaN ELSE Num(i))]

NoRet == [kind |-> "none", exc |-> "", s |-> <<>>]

\* no batch script runs: the function under check is called on its own
NoBatch ==
    /\ script = "none"
    /\ mode = "forecast"
    /\ args_geo_type = "state"
    /\ readable = TRUE
    /\ args_geos = <<>>
    /\ geos = <<>>
    /\ idx = 1
    /\ files = {}
    /\ written = <<>>
    /\ fit_ok = <<>>
    /\ fitted = {}
    /\ exc = ""

(***************************************************************************)
(* SpecExtract: monthly_series_for_geo applied to every dataset and region *)
(* of the model.                                                           *)
(***************************************************************************)
InitExtract ==
    /\ pc = "extract"
    /\ \E n \in 0..MaxRows : \E shapes \in [1..n -> RowShapes] : df = TableOf(shapes)
    /\ geo \in GeoIds
    /\ ret = NoRet
    /\ perm = <<>>
    /\ fc = <<>>
    /\ y = <<>>
    /\ window = WindowDefault
    /\ NoBatch

ExtractSeries ==
    /\ pc = "extract"
    /\ ret' = monthly_series_for_geo(df, "state", geo, ValueCol)
    /\ pc' = "extracted"
    /\ UNCHANGED <<df, geo, perm, fc, y, window, batchVars>>

\* the re-indexing step of the extractor applied to the series it returned
ReindexAgain ==
    /\ pc = "extracted"
    /\ y' = reindex_monthly(ret.s)
    /\ pc' = "reindexed"
    /\ UNCHANGED <<df, geo, ret, perm, fc, window, batchVars>>

NextExtract == ExtractSeries \/ ReindexAgain

SpecExtract == InitExtract /\ [][NextExtract]_vars

\* the rows of the dataset selected for the region asked for
SelectedRows == SelectRows(df, "state", geo)
HasDuplicateMonth(rows) ==
    \E i, j \in 1..Len(rows) : i # j /\ rows[i].date.m = rows[j].date.m
Returned == pc = "extracted" /\ ret.kind = "return"

\* C3: whenever monthly_series_for_geo returns a series, each entry's month
\* is the month right after the previous entry's: the month index is strictly
\* increasing, has no duplicate month and skips no calendar month between
\* its first and its last, also for source rows with duplicate months or
\* dates off the first day of the month.
C3_MonthIndexRegular ==
    Returned =>
        \A i \in 1..(Len(ret.s) - 1) : ret.s[i + 1].date.m = ret.s[i].date.m + 1

\* C4: when the rows selected for the region hold two rows of the same
\* month, the extractor raises DuplicateMonthError and returns no series.
C4_DuplicateMonthRaises ==
    (pc = "extracted" /\ HasDuplicateMonth(SelectedRows)) =>
        (ret.kind = "raise" /\ ret.exc = "DuplicateMonthError")

\* C5: when no row of the dataset matches the region, the extractor raises
\* EmptySeriesError and never returns an empty series.
C5_EmptySeriesRaises ==
    (pc = "extracted" /\ SelectedRows = <<>>) =>
        (ret.kind = "raise" /\ ret.exc = "EmptySeriesError")

\* C12: re-indexing to monthly frequency is idempotent: for a region whose
\* source rows have unique months, re-indexing the series the extractor
\* returned yields that same sequence of (month, value-or-missing) pairs.
C12_ReindexIdempotent ==
    (pc = "reindexed" /\ ~HasDuplicateMonth(SelectedRows)) => y = ret.s

\* two source rows of distinct months with a month between them that the
\* first re-indexing filled with a missing entry, re-indexed a second time
C12_Witness ==
    /\ pc = "reindexed"
    /\ ~HasDuplicateMonth(SelectedRows)
    /\ Len(ret.s) > Len(SelectedRows)
    /\ \E i \in 1..Len(ret.s) : IsNaN(ret.s[i].v)
    /\ \E i \in 1..Len(ret.s) : IsNum(ret.s[i].v)
    /\ y = ret.s

\* the entries of the returned series at month m
EntriesAt(m) == {j \in 1..Len(ret.s) : ret.s[j].date.m = m}
\* the source rows of the region dated in month m
SourceRowsAt(m) == {i \in 1..Len(SelectedRows) : SelectedRows[i].date.m = m}

\* C14: the series monthly_series_for_geo returns holds, at its month, the
\* value of every source row of the region whose value is not missing, and
\* has a missing entry only at a month with no source row or with a source
\* row whose value is missing, whatever the day of the month of the source
\* dates.
C14_ObservationsPreserved ==
    Returned =>
        /\ \A i \in 1..Len(SelectedRows) :
              ~IsNaN(SelectedRows[i][ValueCol]) =>
                  \E j \in EntriesAt(SelectedRows[i].date.m) :
                      ret.s[j].v = SelectedRows[i][ValueCol]
        /\ \A j \in 1..Len(ret.s) :
              IsNaN(ret.s[j].v) =>
                  \/ SourceRowsAt(ret.s[j].date.m) = {}
                  \/ \E i \in SourceRowsAt(ret.s[j].date.m) :
                        IsNaN(SelectedRows[i][ValueCol])

(***************************************************************************)
(* volatility_index.volatility_from_forecast_csv                           *)
(*                                                                         *)
(* csv is the content pd.read_csv finds at csv_path: rows [date, mean,     *)
(* ci95_lo, ci95_hi], an empty cell read as NaN.                           *)
(***************************************************************************)
volatility_from_forecast_csv_signed(csv) ==
    [kind |-> "return", exc |-> "",
     s |-> [i \in 1..Len(csv) |->
              [date |-> csv[i].date,
               v |-> FDiv(FAbs(FSub(csv[i].ci95_hi, csv[i].ci95_lo)), csv[i].mean)]]]

volatility_from_forecast_csv(csv) ==
    [kind |-> "return", exc |-> "",
     s |-> [i \in 1..Len(csv) |->
              [date |-> csv[i].date,
               v |-> FDiv(FAbs(FSub(csv[i].ci95_hi, csv[i].ci95_lo)),
                          FAbs(csv[i].mean))]]]

\* forecast artifacts of the model: one row per future month, ascending, as
\* export_and_plot writes them
PointVals == {NaN, Num(0), Num(100), Num(-100)}
BoundVals == {NaN, Num(90), Num(110)}
FcCells == [mean : PointVals, ci95_lo : BoundVals, ci95_hi : BoundVals]
ForecastOf(cells) ==
    [i \in 1..Len(cells) |->
        [date |-> MonthStart(i), mean |-> cells[i].mean,
         ci95_lo |-> cells[i].ci95_lo, ci95_hi |-> cells[i].ci95_hi]]

InitVolFc ==
    /\ pc = "vol_fc"
    /\ df = <<>>
    /\ geo = "GA"
    /\ ret = NoRet
    /\ perm = <<>>
    /\ \E n \in 0..MaxPeriods : \E cells \in [1..n -> FcCells] : fc = ForecastOf(cells)
    /\ y = <<>>
    /\ window = WindowDefault
    /\ NoBatch

VolatilityFromForecast ==
    /\ pc = "vol_fc"
    /\ ret' = volatility_from_forecast_csv(fc)
    /\ pc' = "vol_fc_done"
    /\ UNCHANGED <<df, geo, perm, fc, y, window, batchVars>>

NextVolFc == VolatilityFromForecast

SpecVolFc == InitVolFc /\ [][NextVolFc]_vars

\* C6: in forecast mode every period whose point estimate is zero gets the
\* missing marker as its index, never 0 and never an infinity, whatever the
\* bounds are.
C6_ZeroPointIsMissing ==
    pc = "vol_fc_done" =>
        \A i \in 1..Len(fc) :
            (i <= Len(ret.s) /\ fc[i].mean = Num(0)) => IsNaN(ret.s[i].v)

\* C7: forecast mode returns one entry per period of the artifact, at the
\* same month and in the same order, and where the point estimate is a
\* non-zero number the entry is |ci95_hi - ci95_lo| / |mean| (missing when a
\* bound is missing); no period is dropped.
C7_ForecastModeIndex ==
    pc = "vol_fc_done" =>
        /\ ret.kind = "return"
        /\ Len(ret.s) = Len(fc)
        /\ \A i \in 1..Len(fc) :
              /\ ret.s[i].date = fc[i].date
              /\ (IsNum(fc[i].mean) /\ fc[i].mean.n # 0) =>
                    IF IsNum(fc[i].ci95_lo) /\ IsNum(fc[i].ci95_hi)
                    THEN /\ IsNum(ret.s[i].v)
                         /\ ret.s[i].v.n * Abs(fc[i].mean.n)
                              = Abs(fc[i].ci95_hi.n - fc[i].ci95_lo.n) * ret.s[i].v.d
                    ELSE IsNaN(ret.s[i].v)

\* C7's case: mean=100, lo=90, hi=110 gives 0.2, next to a period with a
\* negative point estimate and lo > hi
C7_Witness ==
    /\ pc = "vol_fc_done"
    /\ Len(fc) = 2
    /\ fc[1].mean = Num(100) /\ fc[1].ci95_lo = Num(90) /\ fc[1].ci95_hi = Num(110)
    /\ ret.s[1].v = Rat(1, 5)
    /\ fc[2].mean = Num(-100) /\ fc[2].ci95_lo = Num(110) /\ fc[2].ci95_hi = Num(90)
    /\ ret.s[2].v = Rat(1, 5)

(***************************************************************************)
(* utils_series.list_geos                                                  *)
(***************************************************************************)
RECURSIVE InsertByStr(_, _)
InsertByStr(s, x) ==
    IF s = <<>> THEN <<x>>
    ELSE IF StrLess(x, Head(s)) THEN <<x>> \o s
         ELSE <<Head(s)>> \o InsertByStr(Tail(s), x)

RECURSIVE sorted(_)
\* Python's sorted() on strings: ascending and stable
sorted(s) ==
    IF s = <<>> THEN <<>>
    ELSE InsertByStr(sorted(SubSeq(s, 1, Len(s) - 1)), s[Len(s)])

\* the orders in which polars' unique() may hand back the distinct values of
\* a column: it promises none
UniqueOrders(t, col) ==
    LET vals == {t[i][col] : i \in 1..Len(t)}
    IN  {u \in [1..Cardinality(vals) -> vals] : \A v \in vals : \E i \in DOMAIN u : u[i] = v}

RECURSIVE FilterSeq(_, _)
FilterSeq(s, drop) ==
    IF s = <<>> THEN <<>>
    ELSE (IF Head(s) \in drop THEN <<>> ELSE <<Head(s)>>) \o FilterSeq(Tail(s), drop)

list_geos_unfiltered(uniq) == sorted(FilterSeq(uniq, {NoneId}))

\* uniq is what .unique().collect().get_column(geo_col) holds; drop_nans()
\* leaves a string column alone, drop_nulls() drops None, `if x` drops ""
list_geos(uniq) == sorted(FilterSeq(FilterSeq(uniq, {NoneId}), {""}))

CatalogIds == {"CA", "GA", "TX", "", NoneId}

\* the dataset whose column state holds ids; list_geos reads no other column
GeoTableOf(ids) == [i \in 1..Len(ids) |-> MkRow(ids[i], MonthStart(0), NaN)]

InitGeos ==
    /\ pc = "list_geos"
    /\ \E n \in 0..MaxGeoRows : \E ids \in [1..n -> CatalogIds] : df = GeoTableOf(ids)
    /\ geo = "GA"
    /\ ret = NoRet
    /\ perm = <<>>
    /\ fc = <<>>
    /\ y = <<>>
    /\ window = WindowDefault
    /\ NoBatch

ListGeos ==
    /\ pc = "list_geos"
    /\ \E u \in UniqueOrders(df, "state") :
          /\ perm' = u
          /\ ret' = [kind |-> "return", exc |-> "", s |-> list_geos(u)]
    /\ pc' = "listed"
    /\ UNCHANGED <<df, geo, fc, y, window, batchVars>>

NextGeos == ListGeos

SpecGeos == InitGeos /\ [][NextGeos]_vars

\* C10: list_geos returns exactly the distinct identifiers of the column
\* that are neither null nor the empty string, ascending with no repeat.
C10_ListGeosSortedDistinct ==
    pc = "listed" =>
        /\ {ret.s[i] : i \in 1..Len(ret.s)}
              = {df[i].state : i \in 1..Len(df)} \ {NoneId, ""}
        /\ \A i \in 1..(Len(ret.s) - 1) : StrLess(ret.s[i], ret.s[i + 1])

\* C10's case: a column holding TX twice, CA in between, and a null or an
\* empty string
C10_Witness ==
    /\ pc = "listed"
    /\ Len(df) = 4
    /\ df[1].state = "TX" /\ df[2].state = "CA" /\ df[3].state = "TX"
    /\ df[4].state \in {NoneId, ""}
    /\ ret.s = <<"CA", "TX">>

(***************************************************************************)
(* volatility_index.residual_volatility                                    *)
(*                                                                         *)
(* The rolling standard deviation is kept exact as a float of kind "root": *)
(* [k |-> "root", n, d] is sign(n) * sqrt(|n| / d).                        *)
(***************************************************************************)
Max(a, b) == IF a > b THEN a ELSE b

RECURSIVE DropNa(_)
\* Series.dropna(): the entries whose value is not NaN, in order
DropNa(s) ==
    IF s = <<>> THEN <<>>
    ELSE (IF IsNaN(Head(s).v) THEN <<>> ELSE <<Head(s)>>) \o DropNa(Tail(s))

RECURSIVE FSum(_)
\* the exact sum of the values of a series without NaN
FSum(s) ==
    IF s = <<>> THEN Num(0) ELSE FAdd(Head(s).v, FSum(Tail(s)))

\* the rows a trailing window of w rows ending at row i covers
WindowRows(s, i, w) == SubSeq(s, Max(1, i - w + 1), i)

\* Series.rolling(w, min_periods=mp).mean()
RollingMean(s, w, mp) ==
    [i \in 1..Len(s) |->
        LET obs == DropNa(WindowRows(s, i, w))
        IN  [date |-> s[i].date,
             v |-> IF Len(obs) >= mp THEN FDiv(FSum(obs), Num(Len(obs))) ELSE NaN]]

\* the sample variance (ddof=1) of the values of a series of two or more numbers
SampleVar(obs) ==
    LET c == Len(obs)
        mu == FDiv(FSum(obs), Num(c))
        sq == [i \in 1..c |->
                 [date |-> obs[i].date,
                  v |-> FMul(FSub(obs[i].v, mu), FSub(obs[i].v, mu))]]
    IN  FDiv(FSum(sq), Num(c - 1))

\* Series.rolling(w, min_periods=mp).std(), mp >= 2
RollingStd(s, w, mp) ==
    [i \in 1..Len(s) |->
        LET obs == DropNa(WindowRows(s, i, w))
        IN  [date |-> s[i].date,
             v |-> IF Len(obs) >= mp
                   THEN LET q == SampleVar(obs) IN [k |-> "root", n |-> q.n, d |-> q.d]
                   ELSE NaN]]

\* a - b for two series on the same index
SeriesSub(a, b) == [i \in 1..Len(a) |-> [date |-> a[i].date, v |-> FSub(a[i].v, b[i].v)]]

\* sd / x for a standard deviation sd (kind "root" or NaN) and a float x
RootDiv(sd, x) ==
    IF IsNaN(sd) \/ ~IsNum(x) THEN NaN
    ELSE IF x.n # 0
         THEN LET inv == Rat(x.d, Abs(x.n))
                  q == FMul(FMul(Rat(sd.n, sd.d), inv), inv)
              IN  [k |-> "root", n |-> (IF x.n < 0 THEN -1 ELSE 1) * q.n, d |-> q.d]
    ELSE IF sd.n = 0 THEN NaN
    ELSE Inf

\* a / b where the index of a is part of the unique, ascending index of b:
\* pandas aligns both on the union of the two indexes, here b's
SeriesDivAligned(a, b) ==
    [i \in 1..Len(b) |->
        [date |-> b[i].date,
         v |-> IF b[i].date \in IndexDates(a)
               THEN RootDiv(a[CHOOSE j \in 1..Len(a) : a[j].date = b[i].date].v, b[i].v)
               ELSE NaN]]

residual_volatility_keepna(ys, w) ==
    LET mp == Max(MinPeriodsFloor, w \div 2)
    IN  IF mp > w THEN [kind |-> "raise", exc |-> "ValueError", s |-> <<>>]
        ELSE LET y_fit == RollingMean(ys, w, mp)
                 resid == DropNa(SeriesSub(ys, y_fit))
             IN  [kind |-> "return", exc |-> "",
                  s |-> SeriesDivAligned(RollingStd(resid, w, mp), y_fit)]

residual_volatility(ys, w) ==
    LET mp == Max(MinPeriodsFloor, w \div 2)
    IN  \* rolling() refuses min_periods > window
        IF mp > w THEN [kind |-> "raise", exc |-> "ValueError", s |-> <<>>]
        ELSE LET y_fit == RollingMean(ys, w, mp)
                 resid == DropNa(SeriesSub(ys, y_fit))
                 vi == SeriesDivAligned(RollingStd(resid, w, mp), y_fit)
             IN  [kind |-> "return", exc |-> "", s |-> DropNa(vi)]

\* RegionSeries of the model: one entry per month from month 0 on, each a
\* missing marker, 0 or 1
SeriesVals == {NaN, Num(0), Num(1)}
MonthlySeriesOf(vals) == [i \in 1..Len(vals) |-> [date |-> MonthStart(i - 1), v |-> vals[i]]]

InitResid ==
    /\ pc = "vol_resid"
    /\ df = <<>>
    /\ geo = "GA"
    /\ ret = NoRet
    /\ perm = <<>>
    /\ fc = <<>>
    /\ \E n \in 0..MaxLen : \E vals \in [1..n -> SeriesVals] : y = MonthlySeriesOf(vals)
    /\ window \in 0..MaxWindow
    /\ NoBatch

ResidualVolatility ==
    /\ pc = "vol_resid"
    /\ ret' = residual_volatility(y, window)
    /\ pc' = "vol_resid_done"
    /\ UNCHANGED <<df, geo, perm, fc, y, window, batchVars>>

NextResid == ResidualVolatility

SpecResid == InitResid /\ [][NextResid]_vars

\* the statistics of residual mode at row i of y, stated from their
\* definitions: the trailing window of the trend holds enough observations;
\* the residual exists; enough residuals exist up to row i
MinPeriods == Max(MinPeriodsFloor, window \div 2)
ObsIn(lo, hi) == Cardinality({j \in lo..hi : j >= 1 /\ ~IsNaN(y[j].v)})
TrendComputable(i) == ObsIn(i - window + 1, i) >= MinPeriods
ResidDefined(i) == TrendComputable(i) /\ ~IsNaN(y[i].v)
StdComputable(i) ==
    ResidDefined(i) /\ Cardinality({j \in 1..i : ResidDefined(j)}) >= MinPeriods
BothComputable(i) == TrendComputable(i) /\ StdComputable(i)
\* the ratio is 0/0: the trend is zero and the residuals of the window agree
RatioUndefined(i) ==
    LET mp == MinPeriods
        fit == RollingMean(y, window, mp)
        sd == RollingStd(DropNa(SeriesSub(y, fit)), window, mp)
    IN  /\ fit[i].v = Num(0)
        /\ \E j \in 1..Len(sd) : sd[j].date = y[i].date /\ sd[j].v.k = "root" /\ sd[j].v.n = 0
RowOf(date) == CHOOSE i \in 1..Len(y) : y[i].date = date
ResidReturned == pc = "vol_resid_done" /\ ret.kind = "return"

C8_Common ==
    /\ \A k \in 1..Len(ret.s) :
          /\ \E i \in 1..Len(y) : y[i].date = ret.s[k].date
          /\ BothComputable(RowOf(ret.s[k].date))
          /\ ~IsNaN(ret.s[k].v)
    /\ \A k \in 1..(Len(ret.s) - 1) : DateLess(ret.s[k].date, ret.s[k + 1].date)

\* C8 as stated: residual mode emits no entry where the rolling trend or the
\* rolling standard deviation of the residuals is not computable, no missing
\* marker, months ascending, and the first month of the output is the first
\* month at which both statistics are computable.
C8_Original ==
    ResidReturned =>
        /\ C8_Common
        /\ \A i \in 1..Len(y) :
              (BothComputable(i) /\ \A j \in 1..(i - 1) : ~BothComputable(j))
                  => (Len(ret.s) > 0 /\ ret.s[1].date = y[i].date)

\* C8 as amended: the same, the first month of the output being the first
\* month at which both statistics are computable and their ratio is defined
\* (not 0/0, a zero deviation over a zero trend).
C8_ResidualModeEntries ==
    ResidReturned =>
        /\ C8_Common
        /\ \A i \in 1..Len(y) :
              LET Emits(j) == BothComputable(j) /\ ~RatioUndefined(j)
              IN  (Emits(i) /\ \A j \in 1..(i - 1) : ~Emits(j))
                      => (Len(ret.s) > 0 /\ ret.s[1].date = y[i].date)

\* C8's case: the first month at which both statistics are computable has a
\* 0/0 ratio and is dropped, and the output starts at a later month
C8_Witness ==
    /\ ResidReturned
    /\ Len(ret.s) >= 1
    /\ \E i \in 1..Len(y) :
          /\ BothComputable(i) /\ RatioUndefined(i)
          /\ \A j \in 1..(i - 1) : ~BothComputable(j)
          /\ DateLess(y[i].date, ret.s[1].date)

(***************************************************************************)
(* The batch scripts: make_forecasts.main and volatility_index.main.       *)
(*                                                                         *)
(* An artifact path is [kind, key]: out_dir / f"state={key}" / the file    *)
(* name of the kind (forecast.csv, volatility.csv).  What statsmodels      *)
(* computes is not modelled: fit_ok says, for each region of the run,      *)
(* whether sarimax_forecast returns or raises on that region's series.     *)
(* The content of an artifact is not modelled either: files and written    *)
(* hold paths.                                                             *)
(***************************************************************************)
ForecastPath(g) == [kind |-> "forecast", key |-> g]
VolatilityPath(g) == [kind |-> "volatility", key |-> g]

\* str.upper() on the identifiers of the model
Upper(x) == IF x = "all" THEN "ALL" ELSE x

Range(s) == {s[i] : i \in 1..Len(s)}

\* `not geos or (len(geos) == 1 and geos[0].upper() == "ALL")`
WantsAll(a) == a = <<>> \/ (Len(a) = 1 /\ Upper(a[1]) = "ALL")

\* the series main() extracts for region g
SeriesOf(g) == monthly_series_for_geo(df, args_geo_type, g, ValueCol).s

\* datasets of a batch run: row i is the month i of one of the regions
BatchRowShapes == [state : GeoIds, missing : BOOLEAN]
BatchTableOf(shapes) ==
    [i \in 1..Len(shapes) |->
        MkRow(shapes[i].state, MonthStart(i), IF shapes[i].missing THEN NaN ELSE Num(i))]

\* datasets of a run at the metro level: a row has the columns metro and
\* RegionName in place of state
MkMetroRow(me, rn, dt, val) ==
    [metro |-> me, RegionName |-> rn, date |-> dt, zori_smoothed_seasonal |-> val]
MetroRowShapes == [metro : GeoIds, RegionName : GeoIds]
MetroTableOf(shapes) ==
    [i \in 1..Len(shapes) |->
        MkMetroRow(shapes[i].metro, shapes[i].RegionName, MonthStart(i), Num(i))]

ArgIds == GeoIds \cup {"ALL", "all"}

Init ==
    /\ pc = "start"
    /\ \/ /\ readable = TRUE
          /\ \/ /\ args_geo_type = "state"
                /\ \E n \in 0..MaxRows : \E shapes \in [1..n -> BatchRowShapes] :
                      df = BatchTableOf(shapes)
             \/ /\ args_geo_type = "metro"
                /\ \E n \in 0..MaxRows : \E shapes \in [1..n -> MetroRowShapes] :
                      df = MetroTableOf(shapes)
       \* nothing can be read at --parquet: the run never sees a row
       \/ /\ readable = FALSE
          /\ args_geo_type \in {"state", "metro"}
          /\ df = <<>>
    /\ geo = "" /\ ret = NoRet /\ perm = <<>> /\ fc = <<>> /\ y = <<>>
    /\ \E n \in 0..MaxGeos : args_geos \in [1..n -> ArgIds]
    /\ \/ /\ script = "make_forecasts"
          /\ mode = "forecast"
          /\ window = WindowDefault
          /\ files = {}
       \/ /\ script = "volatility_index"
          /\ mode = "forecast"
          /\ window = WindowDefault
          \* the forecast artifacts an earlier run left behind
          /\ files \in SUBSET {ForecastPath(g) : g \in GeoIds}
       \/ /\ script = "volatility_index"
          /\ mode = "residual"
          /\ window \in {MinPeriodsFloor - 1, MinPeriodsFloor, WindowDefault}
          /\ files = {}
    /\ geos = <<>>
    /\ idx = 1
    /\ written = <<>>
    /\ fit_ok = <<>>
    /\ fitted = {}
    /\ exc = ""

\* what the run's regions will meet in statsmodels, fixed as the run starts:
\* a series without any entry cannot be fitted; on any other series the fit
\* may go through (statsmodels only warns of too few observations) or raise
FitOutcomes(list) ==
    IF script = "make_forecasts"
    THEN {f \in [Range(list) -> BOOLEAN] : \A g \in Range(list) : SeriesOf(g) = <<>> => ~f[g]}
    ELSE {<<>>}

\* main(), up to the loop, with --geos given
StartExplicit ==
    /\ pc = "start"
    /\ ~WantsAll(args_geos)
    /\ geos' = args_geos
    /\ fit_ok' \in FitOutcomes(args_geos)
    /\ pc' = "loop"
    /\ UNCHANGED <<fnVars, script, mode, args_geo_type, readable, args_geos, idx, files, written, fitted, exc>>

\* main(), up to the loop, with --geos omitted or ALL: the Geo Catalog
\* scans the dataset for the column named by --geo-type
StartCatalog ==
    /\ pc = "start"
    /\ WantsAll(args_geos)
    /\ \/ /\ readable
          /\ \E u \in UniqueOrders(df, args_geo_type) :
                /\ geos' = list_geos(u)
                /\ fit_ok' \in FitOutcomes(list_geos(u))
          /\ pc' = "loop"
          /\ UNCHANGED exc
       \/ /\ ~readable
          /\ pc' = "crashed"
          /\ exc' = "FileNotFoundError"
          /\ UNCHANGED <<geos, fit_ok>>
    /\ UNCHANGED <<fnVars, script, mode, args_geo_type, readable, args_geos, idx, files, written, fitted>>

Write(path) ==
    /\ files' = files \cup {path}
    /\ written' = Append(written, [path |-> path, by |-> idx])

Raise(e) ==
    /\ pc' = "crashed"
    /\ exc' = e
    /\ UNCHANGED <<files, written, idx>>

\* one pass of the loop of make_forecasts.main: extract, fit, export
ForecastRegion ==
    /\ pc = "loop" /\ script = "make_forecasts" /\ idx <= Len(geos)
    /\ LET g == geos[idx] IN
          \* monthly_series_for_geo reads the dataset: pd.read_parquet
          \/ /\ ~readable
             /\ Raise("FileNotFoundError")
             /\ UNCHANGED fitted
          \/ /\ readable
             /\ fitted' = fitted \cup {g}
             /\ \/ /\ fit_ok[g]
                   /\ Write(ForecastPath(g))
                   /\ idx' = idx + 1
                   /\ UNCHANGED <<pc, exc>>
                \/ /\ ~fit_ok[g]
                   /\ Raise("statsmodels")
    /\ UNCHANGED <<fnVars, script, mode, args_geo_type, readable, args_geos, geos, fit_ok>>

\* one pass of the loop of volatility_index.main in forecast mode: it reads
\* the region's forecast artifact and never the dataset
VolatilityForecastRegion ==
    /\ pc = "loop" /\ script = "volatility_index" /\ mode = "forecast"
    /\ idx <= Len(geos)
    /\ LET g == geos[idx] IN
          \/ /\ ForecastPath(g) \in files
             /\ Write(VolatilityPath(g))
             /\ idx' = idx + 1
             /\ UNCHANGED <<pc, exc>>
          \/ /\ ForecastPath(g) \notin files
             /\ Raise("FileNotFoundError")
    /\ UNCHANGED <<fnVars, script, mode, args_geo_type, readable, args_geos, geos, fit_ok, fitted>>

\* one pass of the loop of volatility_index.main in residual mode
VolatilityResidualRegion ==
    /\ pc = "loop" /\ script = "volatility_index" /\ mode = "residual"
    /\ idx <= Len(geos)
    /\ LET g == geos[idx]
           vi == residual_volatility(SeriesOf(g), window)
       IN \* monthly_series_for_geo reads the dataset: pd.read_parquet
          \/ /\ ~readable
             /\ Raise("FileNotFoundError")
          \/ /\ readable /\ vi.kind = "return"
             /\ Write(VolatilityPath(g))
             /\ idx' = idx + 1
             /\ UNCHANGED <<pc, exc>>
          \/ /\ readable /\ vi.kind = "raise"
             /\ Raise(vi.exc)
    /\ UNCHANGED <<fnVars, script, mode, args_geo_type, readable, args_geos, geos, fit_ok, fitted>>

\* the loop is exhausted: main() returns
Finish ==
    /\ pc = "loop" /\ idx > Len(geos)
    /\ pc' = "done"
    /\ UNCHANGED <<fnVars, batchVars>>

Next ==
    \/ StartExplicit
    \/ StartCatalog
    \/ ForecastRegion
    \/ VolatilityForecastRegion
    \/ VolatilityResidualRegion
    \/ Finish

Spec == Init /\ [][Next]_vars

\* the run has ended: main() returned or an exception escaped it
Ended == pc \in {"done", "crashed"}
\* the artifact the running script writes for region g
ArtifactOf(g) == IF script = "make_forecasts" THEN ForecastPath(g) ELSE VolatilityPath(g)
WrittenPaths == {written[i].path : i \in 1..Len(written)}
\* region g's own processing goes through, whatever the rest of the list is
OwnSuccess(g) ==
    CASE script = "make_forecasts" -> fit_ok[g]
      [] script = "volatility_index" /\ mode = "forecast" -> ForecastPath(g) \in files
      [] OTHER -> residual_volatility(SeriesOf(g), window).kind = "return"
\* the non-missing observations of a series
Observations(s) == Cardinality({i \in 1..Len(s) : ~IsNaN(s[i].v)})

\* C11: in a run whose dataset cannot be read, no region is processed and no
\* artifact is written, in every batch mode and with the region list given
\* or discovered: the loop never gets past its first region, no series is
\* handed to the fit and the run writes nothing.
C11_DatasetErrorAborts ==
    ~readable => (idx = 1 /\ fitted = {} /\ written = <<>>)

\* C13: within a run no two writes go to the same artifact path, also when
\* the region list repeats an identifier, and a region's forecast artifact
\* path is not its volatility artifact path.
C13_ArtifactWrittenOnce ==
    /\ \A i, j \in 1..Len(written) :
          written[i].path = written[j].path => i = j
    /\ \A g \in Range(geos) : ForecastPath(g) # VolatilityPath(g)

\* the column the extractor filters on at the level of the run
ExtractorColumn == geo_col_map(args_geo_type)

\* C15: at every geography level the Geo Catalog discovers the identifiers
\* in the column the extractor filters on: every identifier of a
\* catalog-discovered region list matches at least one row in extraction.
C15_CatalogMatchesExtractor ==
    (pc = "loop" /\ WantsAll(args_geos)) =>
        \A g \in Range(geos) : SelectRows(df, ExtractorColumn, g) # <<>>

\* C1: batch isolation: once a run has ended, if a region of the list fails
\* on its own, every region of the list that succeeds on its own has its
\* artifact written, wherever the failing region stands in the list, and
\* the failing region has none.
C1_BatchIsolation ==
    (readable /\ Ended) =>
        \A r \in Range(geos) :
            ~OwnSuccess(r) =>
                /\ ArtifactOf(r) \notin WrittenPaths
                /\ \A o \in Range(geos) : OwnSuccess(o) => ArtifactOf(o) \in WrittenPaths

\* C2: no exception escapes a batch run, and when the run completes every
\* region of the list has its artifact written (the code keeps no record of
\* failed regions that could stand in for one).
C2_BatchCompletes ==
    readable =>
        /\ pc # "crashed"
        /\ pc = "done" => \A r \in Range(geos) : ArtifactOf(r) \in WrittenPaths

\* C9: a series with fewer than 24 non-missing observations is never handed
\* to the fit, and the batch writes no forecast artifact for its region.
C9_InsufficientHistory ==
    script = "make_forecasts" =>
        \A g \in Range(geos) :
            Observations(SeriesOf(g)) < 24 =>
                (g \notin fitted /\ ForecastPath(g) \notin WrittenPaths)

====
